---- MODULE Spec2Model ----
(***************************************************************************)
(* The PostOffice exercise, in its two versions:                           *)
(*   week7.3-ex1.py  PostOffice over Message objects (the caller builds a  *)
(*                   Message and hands the object to send_message);        *)
(*   week7.2-ex1.py  PostOffice over dictionaries (send_message builds a   *)
(*                   fresh dictionary for every message).                  *)
(* Python objects live on a heap and lists hold references, so a mailbox   *)
(* is a sequence of heap addresses.  Sequences are 1-based here and        *)
(* 0-based in Python: Python's box[k] is box[k + 1] below.                 *)
(* Strings are sequences of characters.                                    *)
(***************************************************************************)
EXTENDS Integers, Sequences, FiniteSets

VARIABLES
    impl,        \* which of the two programs is running
    usernames,   \* the list handed to PostOffice.__init__
    message_id,  \* PostOffice.message_id
    boxes,       \* PostOffice.boxes: username -> sequence of heap addresses
    heap,        \* the Message objects / message dictionaries, by address
    last,        \* the last call: its arguments and its outcome
    pre,         \* the office and the heap as they were when that call began
    returned,    \* the values the successful send_message calls returned, in order
    reread       \* the last call is a read_inbox that repeats the call before it:
                 \* that call was a read_inbox with the same username and number

vars == <<impl, usernames, message_id, boxes, heap, last, pre, returned, reread>>

(***************************************************************************)
(* Bounds and input sets.  MaxSends caps the successful send_message calls *)
(* of a run, MaxMessages the Message objects the caller builds.  Counts    *)
(* holds the default -1, another negative number, 0, and numbers below, at *)
(* and above the length of a mailbox.  With UsernameLists = <<"a", "a">>   *)
(* the name "b" is not registered.                                         *)
(***************************************************************************)
MaxSends == 2
MaxMessages == 2

Impls == {"week7.3", "week7.2"}
Names == {"a", "b"}
UsernameLists == {<<"a", "b">>, <<"a", "a">>}
Senders == {"a"}
Titles == {<<"s">>}
Bodies == {<<"o", "H", "i">>, <<"h", "o">>}
Substrings == {<<>>, <<"h">>, <<"H", "i">>}
Counts == (-2) .. MaxSends

NoCall ==
    [op |-> "none", user |-> "", count |-> 0, urgent |-> FALSE, sub |-> <<>>,
     msg |-> 0, outcome |-> "return", id |-> 0, result |-> <<>>]

Snapshot == [heap |-> heap, boxes |-> boxes, message_id |-> message_id]

(***************************************************************************)
(* Python's  needle in hay  for strings                                    *)
(***************************************************************************)
Contains(needle, hay) ==
    \E k \in 0 .. (Len(hay) - Len(needle)) :
        SubSeq(hay, k + 1, k + Len(needle)) = needle

\* the objects box[number] for number in range(n)
Window(box, n) == {box[k] : k \in 1 .. n}

(***************************************************************************)
(* week7.3: class Message                                                  *)
(***************************************************************************)
\* Message.__init__
NewMessage(sender, recipient, title, body) ==
    [sender |-> sender, recipient |-> recipient, title |-> title, body |-> body,
     is_read |-> FALSE, message_id |-> 1]

SetMessageIdLocal(message, id) == message

\* Message.add_message_id: self.message_id = message_id
SetMessageId(message, id) == [message EXCEPT !.message_id = id]

(***************************************************************************)
(* week7.3: the steps of PostOffice.send_message, read_inbox, search_inbox *)
(***************************************************************************)
NextIdStuck(id) == id

\* self.message_id += 1
NextId(id) == id + 1

IdOnKeyErrorCounted(id) == id + 1

\* self.boxes[message.recipient] on line 116 raises KeyError before line 117
\* runs: the counter keeps its value
IdOnKeyError(id) == id

DeliverOverFront(box, o, urgent) ==
    IF urgent /\ box /= <<>> THEN <<o>> \o Tail(box)
    ELSE Append(box, o)

DeliverAppendOnly(box, o, urgent) == Append(box, o)

\* user_box.insert(0, message) if urgent else user_box.append(message)
Deliver(box, o, urgent) == IF urgent THEN <<o>> \o box ELSE Append(box, o)

LooksUpBoxLazy(count) == count = -1 \/ count >= 1

\* whether read_inbox evaluates self.boxes[username] (KeyError for an unknown
\* name): on line 146 when the number is -1, and otherwise on line 145, in
\* messages_number > len(self.boxes[username])
LooksUpBox(count) == IF count = -1 THEN TRUE ELSE TRUE

MessagesNumberNoClamp(box, n) == IF n = -1 THEN Len(box) ELSE n

\* lines 145-146: the number of positions read_inbox scans
MessagesNumber(box, n) == IF n = -1 \/ n > Len(box) THEN Len(box) ELSE n

MassagesEvery(h, box, n) == SubSeq(box, 1, n)

MassagesAll(h, box, n) ==
    LET Unread(o) == h[o].is_read = FALSE
    IN  SelectSeq(box, Unread)

\* [box[number] for number in range(n) if box[number].is_read is False]
Massages(h, box, n) ==
    LET Unread(o) == h[o].is_read = FALSE
    IN  SelectSeq(SubSeq(box, 1, n), Unread)

MarkReadButLast(h, box, n) ==
    [o \in DOMAIN h |->
        IF o \in Window(box, n - 1) THEN [h[o] EXCEPT !.is_read = TRUE] ELSE h[o]]

MarkReadToggle(h, box, n) ==
    [o \in DOMAIN h |->
        IF o \in Window(box, n) THEN [h[o] EXCEPT !.is_read = ~@] ELSE h[o]]

\* for number in range(n): if not box[number].is_read: box[number].is_read = True
MarkRead(h, box, n) ==
    [o \in DOMAIN h |->
        IF o \in Window(box, n) /\ ~h[o].is_read
        THEN [h[o] EXCEPT !.is_read = TRUE]
        ELSE h[o]]

MatchingPrefix(h, box, sub) ==
    LET Hit(o) == Len(sub) <= Len(h[o].body) /\ SubSeq(h[o].body, 1, Len(sub)) = sub
    IN  SelectSeq(box, Hit)

\* [message for message in box if string_to_search in message.body]
Matching(h, box, sub) ==
    LET Hit(o) == Contains(sub, h[o].body)
    IN  SelectSeq(box, Hit)

(***************************************************************************)
(* week7.2: the steps of PostOffice.send_message, read_inbox, search_inbox *)
(***************************************************************************)
\* self.message_id = self.message_id + 1
NextIdDict(id) == id + 1

MessageDetailsOldId(id, body, sender) ==
    [id |-> id - 1, body |-> body, sender |-> sender, unread |-> TRUE]

\* the dictionary message_details
MessageDetails(id, body, sender) ==
    [id |-> id, body |-> body, sender |-> sender, unread |-> TRUE]

DeliverDictOverFront(box, o, urgent) ==
    IF urgent /\ box /= <<>> THEN <<o>> \o Tail(box)
    ELSE Append(box, o)

\* user_box.insert(0, message_details) if urgent else user_box.append(message_details)
DeliverDict(box, o, urgent) == IF urgent THEN <<o>> \o box ELSE Append(box, o)

\* whether read_inbox evaluates self.boxes[username]: on line 98 when the number
\* is -1, and otherwise only inside the loops over range(messages_number), which
\* are empty for a number below 1
LooksUpBoxDict(count) == count = -1 \/ count >= 1

\* lines 97-98: the number of positions read_inbox scans
MessagesNumberDict(box, n) == IF n = -1 THEN Len(box) ELSE n

\* [box[number] for number in range(n) if box[number]['unread']]
MassagesDict(h, box, n) ==
    LET Unread(o) == h[o].unread
    IN  SelectSeq(SubSeq(box, 1, n), Unread)

MarkReadDictEveryBox(h, box, n) ==
    [o \in DOMAIN h |-> IF n >= 1 THEN [h[o] EXCEPT !.unread = FALSE] ELSE h[o]]

\* for number in range(n): if box[number]['unread']: box[number]['unread'] = False
MarkReadDict(h, box, n) ==
    [o \in DOMAIN h |->
        IF o \in Window(box, n) /\ h[o].unread
        THEN [h[o] EXCEPT !.unread = FALSE]
        ELSE h[o]]

\* [message for message in box if string_to_search in message['body']]
MatchingDict(h, box, sub) ==
    LET Hit(o) == Contains(sub, h[o].body)
    IN  SelectSeq(box, Hit)

(***************************************************************************)
(* PostOffice.__init__ (the same in both versions)                         *)
(***************************************************************************)
NewBoxesButLast(names) ==
    [user \in {names[k] : k \in 1 .. (Len(names) - 1)} |-> <<>>]

\* {user: [] for user in usernames}: a name that comes twice is one key
NewBoxes(names) == [user \in {names[k] : k \in 1 .. Len(names)} |-> <<>>]

Init ==
    /\ impl \in Impls
    /\ usernames \in UsernameLists
    /\ message_id = 0
    /\ boxes = NewBoxes(usernames)
    /\ heap = <<>>
    /\ last = NoCall
    /\ pre = [heap |-> <<>>, boxes |-> boxes, message_id |-> 0]
    /\ returned = <<>>
    /\ reread = FALSE

(***************************************************************************)
(* week7.3: the caller builds Message(sender, recipient, title, body)      *)
(***************************************************************************)
Construct ==
    /\ impl = "week7.3"
    /\ Len(heap) < MaxMessages
    /\ \E sender \in Senders, recipient \in Names, title \in Titles, body \in Bodies :
           heap' = Append(heap, NewMessage(sender, recipient, title, body))
    /\ pre' = Snapshot
    /\ last' = [NoCall EXCEPT !.op = "Message", !.msg = Len(heap) + 1]
    /\ reread' = FALSE
    /\ UNCHANGED <<impl, usernames, message_id, boxes, returned>>

(***************************************************************************)
(* week7.3: message.add_message_id(message_id).  As in show_example, the   *)
(* caller hands over the id the last successful send_message returned, on  *)
(* any Message object it holds.                                            *)
(***************************************************************************)
AddMessageId ==
    /\ impl = "week7.3"
    /\ returned /= <<>>
    /\ \E message \in DOMAIN heap :
        LET id == returned[Len(returned)]
        IN  /\ heap' = [heap EXCEPT ![message] = SetMessageId(@, id)]
            /\ last' = [NoCall EXCEPT !.op = "add_message_id", !.msg = message,
                                      !.id = id]
    /\ pre' = Snapshot
    /\ reread' = FALSE
    /\ UNCHANGED <<impl, usernames, message_id, boxes, returned>>

(***************************************************************************)
(* week7.3: PostOffice.send_message(message, urgent).  The message is any  *)
(* Message object the caller holds, sent before or not.                    *)
(***************************************************************************)
SendMessage ==
    /\ impl = "week7.3"
    /\ Len(returned) < MaxSends
    /\ \E message \in DOMAIN heap, urgent \in BOOLEAN :
        LET recipient == heap[message].recipient
            call == [NoCall EXCEPT !.op = "send_message", !.user = recipient,
                                   !.msg = message, !.urgent = urgent]
        IN  /\ pre' = Snapshot
            /\ IF recipient \notin DOMAIN boxes
               THEN /\ last' = [call EXCEPT !.outcome = "KeyError"]
                    /\ message_id' = IdOnKeyError(message_id)
                    /\ UNCHANGED <<boxes, returned>>
               ELSE /\ message_id' = NextId(message_id)
                    /\ boxes' = [boxes EXCEPT ![recipient] = Deliver(@, message, urgent)]
                    /\ returned' = Append(returned, message_id')
                    /\ last' = [call EXCEPT !.id = message_id']
    /\ reread' = FALSE
    /\ UNCHANGED <<impl, usernames, heap>>

(***************************************************************************)
(* week7.3: PostOffice.read_inbox(username, messages_number).              *)
(* box[number] past the end of the list would raise IndexError in the      *)
(* first loop, before any flag is changed.                                 *)
(***************************************************************************)
ReadInbox ==
    /\ impl = "week7.3"
    /\ \E username \in Names, count \in Counts :
        LET call == [NoCall EXCEPT !.op = "read_inbox", !.user = username,
                                   !.count = count]
        IN  /\ reread' = (last.op = "read_inbox" /\ last.user = username /\ last.count = count)
            /\ pre' = Snapshot
            /\ IF username \notin DOMAIN boxes
               THEN /\ last' = [call EXCEPT !.outcome =
                                   IF LooksUpBox(count) THEN "KeyError" ELSE "return"]
                    /\ UNCHANGED heap
               ELSE LET box == boxes[username]
                        n == MessagesNumber(box, count)
                    IN  IF n > Len(box)
                        THEN /\ last' = [call EXCEPT !.outcome = "IndexError"]
                             /\ UNCHANGED heap
                        ELSE /\ last' = [call EXCEPT !.result = Massages(heap, box, n)]
                             /\ heap' = MarkRead(heap, box, n)
    /\ UNCHANGED <<impl, usernames, message_id, boxes, returned>>

(***************************************************************************)
(* week7.3: PostOffice.search_inbox(username, string_to_search)            *)
(***************************************************************************)
SearchInbox ==
    /\ impl = "week7.3"
    /\ \E username \in Names, sub \in Substrings :
        LET call == [NoCall EXCEPT !.op = "search_inbox", !.user = username,
                                   !.sub = sub]
        IN  /\ pre' = Snapshot
            /\ last' = IF username \notin DOMAIN boxes
                       THEN [call EXCEPT !.outcome = "KeyError"]
                       ELSE [call EXCEPT !.result = Matching(heap, boxes[username], sub)]
    /\ reread' = FALSE
    /\ UNCHANGED <<impl, usernames, message_id, boxes, heap, returned>>

(***************************************************************************)
(* week7.2: PostOffice.send_message(sender, recipient, message_body,       *)
(* urgent).  Every call builds a new dictionary.                           *)
(***************************************************************************)
SendMessageDict ==
    /\ impl = "week7.2"
    /\ Len(returned) < MaxSends
    /\ \E sender \in Senders, recipient \in Names, body \in Bodies, urgent \in BOOLEAN :
        LET call == [NoCall EXCEPT !.op = "send_message", !.user = recipient,
                                   !.urgent = urgent]
            message_details == Len(heap) + 1
        IN  /\ pre' = Snapshot
            /\ IF recipient \notin DOMAIN boxes
               THEN /\ last' = [call EXCEPT !.outcome = "KeyError"]
                    /\ UNCHANGED <<message_id, boxes, heap, returned>>
               ELSE /\ message_id' = NextIdDict(message_id)
                    /\ heap' = Append(heap, MessageDetails(message_id', body, sender))
                    /\ boxes' = [boxes EXCEPT ![recipient] =
                                    DeliverDict(@, message_details, urgent)]
                    /\ returned' = Append(returned, message_id')
                    /\ last' = [call EXCEPT !.msg = message_details, !.id = message_id']
    /\ reread' = FALSE
    /\ UNCHANGED <<impl, usernames>>

(***************************************************************************)
(* week7.2: PostOffice.read_inbox(username, messages_number).              *)
(* box[number] past the end of the list raises IndexError in the first     *)
(* loop, before any flag is changed.                                       *)
(***************************************************************************)
ReadInboxDict ==
    /\ impl = "week7.2"
    /\ \E username \in Names, count \in Counts :
        LET call == [NoCall EXCEPT !.op = "read_inbox", !.user = username,
                                   !.count = count]
        IN  /\ reread' = (last.op = "read_inbox" /\ last.user = username /\ last.count = count)
            /\ pre' = Snapshot
            /\ IF username \notin DOMAIN boxes
               THEN /\ last' = [call EXCEPT !.outcome =
                                   IF LooksUpBoxDict(count) THEN "KeyError" ELSE "return"]
                    /\ UNCHANGED heap
               ELSE LET box == boxes[username]
                        n == MessagesNumberDict(box, count)
                    IN  IF n > Len(box)
                        THEN /\ last' = [call EXCEPT !.outcome = "IndexError"]
                             /\ UNCHANGED heap
                        ELSE /\ last' = [call EXCEPT !.result = MassagesDict(heap, box, n)]
                             /\ heap' = MarkReadDict(heap, box, n)
    /\ UNCHANGED <<impl, usernames, message_id, boxes, returned>>

(***************************************************************************)
(* week7.2: PostOffice.search_inbox(username, string_to_search)            *)
(***************************************************************************)
SearchInboxDict ==
    /\ impl = "week7.2"
    /\ \E username \in Names, sub \in Substrings :
        LET call == [NoCall EXCEPT !.op = "search_inbox", !.user = username,
                                   !.sub = sub]
        IN  /\ pre' = Snapshot
            /\ last' = IF username \notin DOMAIN boxes
                       THEN [call EXCEPT !.outcome = "KeyError"]
                       ELSE [call EXCEPT !.result = MatchingDict(heap, boxes[username], sub)]
    /\ reread' = FALSE
    /\ UNCHANGED <<impl, usernames, message_id, boxes, heap, returned>>

Next ==
    \/ Construct
    \/ SendMessage
    \/ ReadInbox
    \/ SearchInbox
    \/ SendMessageDict
    \/ ReadInboxDict
    \/ SearchInboxDict

Spec == Init /\ [][Next]_vars

(***************************************************************************)
(* The Message-based office with a caller that builds messages, sends them *)
(* and calls add_message_id.                                               *)
(***************************************************************************)
InitIds == Init /\ impl = "week7.3"

NextIds ==
    \/ Construct
    \/ AddMessageId
    \/ SendMessage

SpecIds == InitIds /\ [][NextIds]_vars

(***************************************************************************)
(* What the properties below speak of.                                     *)
(***************************************************************************)
Returned == last.outcome = "return"
Sent == last.op = "send_message" /\ Returned
ReadCall == last.op = "read_inbox"
SearchCall == last.op = "search_inbox"
Registered == last.user \in DOMAIN boxes

\* the read flag of a heap object, in either representation
IsRead(h, o) == IF impl = "week7.3" THEN h[o].is_read ELSE ~h[o].unread

\* the mailbox the last call named, now and when the call began
Box == boxes[last.user]
BoxBefore == pre.boxes[last.user]

\* the objects at the first n positions of box that h holds unread, in order
RECURSIVE UnreadUpTo(_, _, _)
UnreadUpTo(h, box, n) ==
    IF n <= 0 THEN <<>>
    ELSE IF IsRead(h, box[n]) THEN UnreadUpTo(h, box, n - 1)
         ELSE Append(UnreadUpTo(h, box, n - 1), box[n])

\* needle occurs in hay: hay is some prefix, then needle, then some suffix
Occurs(needle, hay) ==
    \E a \in 0 .. Len(hay) : \E b \in a .. Len(hay) : SubSeq(hay, a + 1, b) = needle

\* the objects at the first n positions of box whose body holds sub, in order
RECURSIVE OccurUpTo(_, _, _, _)
OccurUpTo(h, box, sub, n) ==
    IF n <= 0 THEN <<>>
    ELSE IF Occurs(sub, h[box[n]].body)
         THEN Append(OccurUpTo(h, box, sub, n - 1), box[n])
         ELSE OccurUpTo(h, box, sub, n - 1)

(***************************************************************************)
(* C1: the k-th successful send_message returns k, whichever mailbox it    *)
(* targets and whatever its urgency: the ids start at 1, rise by one and   *)
(* never repeat.                                                           *)
(***************************************************************************)
C1_ReturnedIds ==
    /\ \A k \in 1 .. Len(returned) : returned[k] = k
    /\ Sent => last.id = Len(returned)

\* a second successful send, to another mailbox than an earlier one
C1_Witness ==
    /\ Sent
    /\ last.id = 2
    /\ \E user \in DOMAIN boxes : user /= last.user /\ boxes[user] /= <<>>

(***************************************************************************)
(* C2: a successful urgent send puts the message at the front of the       *)
(* recipient's mailbox and a non-urgent one at its end; of two urgent      *)
(* sends in a row to one mailbox, the second message stands right before   *)
(* the first.                                                              *)
(***************************************************************************)
C2_Placement ==
    [][ /\ (last'.op = "send_message" /\ last'.outcome = "return") =>
            LET box == boxes'[last'.user]
            IN  IF last'.urgent THEN box[1] = last'.msg
                                ELSE box[Len(box)] = last'.msg
        /\ ( /\ Sent /\ last.urgent
             /\ last'.op = "send_message" /\ last'.outcome = "return" /\ last'.urgent
             /\ last'.user = last.user ) =>
            LET box == boxes'[last'.user]
            IN  box[1] = last'.msg /\ box[2] = last.msg
      ]_vars

\* an urgent send into a mailbox that held another message
C2_Witness ==
    /\ Sent /\ last.urgent
    /\ Len(Box) = 2
    /\ Box[1] = last.msg
    /\ Box[2] /= last.msg

(***************************************************************************)
(* C3: read_inbox(user) without a number returns the entries of the        *)
(* mailbox that were unread when the call began, in mailbox order, and     *)
(* leaves every entry of the mailbox read.                                 *)
(***************************************************************************)
C3_ReadAll ==
    (ReadCall /\ Registered /\ last.count = -1) =>
        /\ Returned
        /\ last.result = UnreadUpTo(pre.heap, BoxBefore, Len(BoxBefore))
        /\ \A k \in 1 .. Len(Box) : IsRead(heap, Box[k])

\* a read of a mailbox of two entries of which one was read before
C3_Witness ==
    /\ ReadCall /\ Registered /\ last.count = -1
    /\ Len(Box) = 2
    /\ Len(last.result) = 1
    /\ \E k \in 1 .. 2 : IsRead(pre.heap, Box[k])

(***************************************************************************)
(* C4: read_inbox(user, count) with 0 <= count <= the length of the        *)
(* mailbox returns, in mailbox order, the entries among the first count    *)
(* that were unread when the call began: at most count of them, and each   *)
(* from one of the first count positions.                                  *)
(***************************************************************************)
C4_ReadWindow ==
    (ReadCall /\ Registered /\ 0 <= last.count /\ last.count <= Len(BoxBefore)) =>
        /\ Returned
        /\ last.result = UnreadUpTo(pre.heap, BoxBefore, last.count)
        /\ Len(last.result) <= last.count
        /\ \A k \in 1 .. Len(last.result) :
               \E p \in 1 .. last.count : BoxBefore[p] = last.result[k]

\* a read of one entry of a mailbox that holds two different unread entries
C4_Witness ==
    /\ ReadCall /\ Registered /\ last.count = 1
    /\ Len(Box) = 2
    /\ Box[1] /= Box[2]
    /\ ~IsRead(pre.heap, Box[1]) /\ ~IsRead(pre.heap, Box[2])
    /\ last.result = <<Box[1]>>

(***************************************************************************)
(* C5: read_inbox(user, count) with 0 <= count <= the length of the        *)
(* mailbox leaves every entry at a position >= count with the read state   *)
(* it had when the call began.                                             *)
(***************************************************************************)
C5_BeyondWindowKept ==
    (ReadCall /\ Registered /\ Returned /\ 0 <= last.count /\ last.count <= Len(BoxBefore)) =>
        \A k \in (last.count + 1) .. Len(Box) :
            IsRead(heap, Box[k]) = IsRead(pre.heap, Box[k])

(***************************************************************************)
(* C6: in the Message-based office, read_inbox(user, count) with count -1  *)
(* or count above the length of the mailbox succeeds, returns every entry  *)
(* that was unread when the call began and leaves every entry read.        *)
(***************************************************************************)
C6_WholeMailbox ==
    ( /\ impl = "week7.3" /\ ReadCall /\ Registered
      /\ (last.count = -1 \/ last.count > Len(BoxBefore)) ) =>
        /\ Returned
        /\ last.result = UnreadUpTo(pre.heap, BoxBefore, Len(BoxBefore))
        /\ \A k \in 1 .. Len(Box) : IsRead(heap, Box[k])

\* a number above the length of a mailbox that held an unread entry
C6_Witness ==
    /\ impl = "week7.3" /\ ReadCall /\ Registered
    /\ last.count > Len(Box)
    /\ Len(last.result) = 1
    /\ IsRead(heap, Box[1])

(***************************************************************************)
(* C7: when read_inbox(user, count) is called twice in a row with the same *)
(* arguments, for a registered user and any count, the second call returns *)
(* an empty sequence and changes no read state.                            *)
(***************************************************************************)
C7_SecondReadEmpty ==
    (ReadCall /\ Registered /\ reread) =>
        /\ Returned
        /\ last.result = <<>>
        /\ heap = pre.heap

(***************************************************************************)
(* C8: search_inbox(user, substring) returns, in mailbox order, every      *)
(* entry of the whole mailbox whose body holds the substring, read or      *)
(* unread, and changes no read state (nor anything else of the office).    *)
(***************************************************************************)
C8_SearchAll ==
    (SearchCall /\ Registered) =>
        /\ Returned
        /\ last.result = OccurUpTo(heap, Box, last.sub, Len(Box))
        /\ heap = pre.heap
        /\ boxes = pre.boxes

\* a search that finds a read entry and passes over another entry
C8_Witness ==
    /\ SearchCall /\ Registered
    /\ Len(Box) = 2
    /\ Len(last.result) = 1
    /\ IsRead(heap, last.result[1])
    /\ last.sub /= <<>>

(***************************************************************************)
(* C9: in the Message-based office, send_message for a recipient that is   *)
(* not registered, and read_inbox and search_inbox for a username that is  *)
(* not registered, raise KeyError, whatever the count, the urgency and the *)
(* substring.                                                              *)
(***************************************************************************)
C9_UnknownUserKeyError ==
    ( /\ impl = "week7.3"
      /\ last.op \in {"send_message", "read_inbox", "search_inbox"}
      /\ ~Registered ) =>
        last.outcome = "KeyError"

\* read_inbox of an unknown user with the number 0
C9_Witness ==
    /\ impl = "week7.3" /\ ReadCall /\ ~Registered
    /\ last.count = 0
    /\ last.outcome = "KeyError"

(***************************************************************************)
(* C10: a message that is read stays read: no call turns the read flag of  *)
(* a message back to unread.                                               *)
(***************************************************************************)
C10_ReadIsOneWay ==
    [][ \A o \in DOMAIN heap : IsRead(heap, o) => IsRead(heap', o) ]_vars

\* a read message in a mailbox that is read again
C10_Witness ==
    /\ ReadCall /\ Registered /\ Returned
    /\ Len(Box) >= 1
    /\ last.count >= 1
    /\ IsRead(pre.heap, Box[1])
    /\ IsRead(heap, Box[1])

(***************************************************************************)
(* C11: the mailboxes are those of the usernames given at construction, a  *)
(* name given twice having one mailbox; every mailbox is empty right after *)
(* construction; no call, successful or failing, adds or removes a         *)
(* mailbox.                                                                *)
(***************************************************************************)
C11_MailboxesFixed ==
    /\ DOMAIN boxes = {usernames[k] : k \in 1 .. Len(usernames)}
    /\ DOMAIN boxes = DOMAIN pre.boxes
    /\ last.op = "none" => \A user \in DOMAIN boxes : boxes[user] = <<>>

\* a name given twice, and a send to a name that was not given, after a send
\* that was delivered
C11_Witness ==
    /\ usernames = <<"a", "a">>
    /\ last.op = "send_message" /\ last.outcome = "KeyError" /\ last.user = "b"
    /\ DOMAIN boxes = {"a"}
    /\ boxes["a"] /= <<>>

(***************************************************************************)
(* C12: in the Message-based office send_message leaves the message_id of  *)
(* the Message it is given as it was (1 for a fresh Message), whatever id  *)
(* it returns; the field of a Message changes only through add_message_id, *)
(* which sets it to the id it is given.                                    *)
(***************************************************************************)
C12_MessageIdNotSynced ==
    /\ Sent => heap[last.msg].message_id = pre.heap[last.msg].message_id
    /\ last.op = "Message" => heap[last.msg].message_id = 1
    /\ last.op = "add_message_id" => heap[last.msg].message_id = last.id
    /\ \A o \in DOMAIN pre.heap :
           (last.op = "add_message_id" /\ last.msg = o)
           \/ heap[o].message_id = pre.heap[o].message_id

\* a send that returns 2 for a Message whose message_id is 1
C12_Witness ==
    /\ Sent
    /\ last.id = 2
    /\ heap[last.msg].message_id = 1
    /\ pre.heap[last.msg].message_id = 1

(***************************************************************************)
(* C13: in a fresh office with the users a and b, the first send of a      *)
(* message from a to b returns 1 and leaves one entry in the mailbox of b  *)
(* and none in that of a; the read_inbox(b) that follows returns that one  *)
(* message, and a second read_inbox(b) returns the empty sequence.         *)
(***************************************************************************)
C13_FirstSend ==
    /\ usernames = <<"a", "b">>
    /\ Sent
    /\ last.user = "b"
    /\ pre.message_id = 0
    /\ \A user \in DOMAIN pre.boxes : pre.boxes[user] = <<>>
    /\ heap[last.msg].sender = "a"

C13_Scenario ==
    [][ /\ C13_FirstSend' =>
            /\ last'.id = 1
            /\ Len(boxes'["b"]) = 1
            /\ boxes'["a"] = <<>>
        /\ ( /\ C13_FirstSend
             /\ last'.op = "read_inbox" /\ last'.user = "b" /\ last'.count = -1 ) =>
            /\ last'.outcome = "return"
            /\ last'.result = <<last.msg>>
        /\ ( /\ usernames = <<"a", "b">> /\ message_id = 1
             /\ ReadCall /\ last.user = "b" /\ last.count = -1
             /\ last.result = boxes["b"]
             /\ last'.op = "read_inbox" /\ last'.user = "b" /\ last'.count = -1 ) =>
            /\ last'.outcome = "return"
            /\ last'.result = <<>>
      ]_vars

\* the second read_inbox(b) of the scenario has returned
C13_Witness ==
    /\ usernames = <<"a", "b">>
    /\ message_id = 1
    /\ ReadCall /\ last.user = "b" /\ last.count = -1 /\ reread
    /\ last.result = <<>>
    /\ Len(boxes["b"]) = 1
    /\ boxes["a"] = <<>>
    /\ heap[boxes["b"][1]].sender = "a"
    /\ IsRead(heap, boxes["b"][1])

(***************************************************************************)
(* C14: the id counter of the office equals the number of entries over all *)
(* mailboxes, which is the number of successful sends so far: no mailbox   *)
(* loses an entry and the counter never moves without an insertion.        *)
(***************************************************************************)
RECURSIVE Entries(_, _)
Entries(bs, users) ==
    IF users = {} THEN 0
    ELSE LET user == CHOOSE u \in users : TRUE
         IN  Len(bs[user]) + Entries(bs, users \ {user})

C14_CounterIsEntries ==
    /\ message_id = Entries(boxes, DOMAIN boxes)
    /\ message_id = Len(returned)
    /\ \A user \in DOMAIN boxes : Len(boxes[user]) >= Len(pre.boxes[user])
    /\ message_id /= pre.message_id => Sent

\* two entries in two mailboxes, then calls that deliver nothing
C14_Witness ==
    /\ message_id = 2
    /\ \A user \in DOMAIN boxes : Len(boxes[user]) = 1
    /\ Cardinality(DOMAIN boxes) = 2
    /\ ReadCall /\ last.count = 1

(***************************************************************************)
(* C15: a send_message, read_inbox or search_inbox that raises KeyError    *)
(* leaves the office as it was: the counter keeps its value, so a failed   *)
(* send uses up no id and the next delivered send returns the last id plus *)
(* 1, and no mailbox changes in content, order or read flags.              *)
(***************************************************************************)
C15_KeyErrorChangesNothing ==
    /\ last.outcome = "KeyError" =>
           /\ message_id = pre.message_id
           /\ boxes = pre.boxes
           /\ heap = pre.heap
           /\ Len(returned) = message_id
    /\ Sent => last.id = pre.message_id + 1

\* a send to an unknown recipient after a delivered send and a read
C15_Witness ==
    /\ last.op = "send_message" /\ last.outcome = "KeyError"
    /\ message_id = 1
    /\ \E user \in DOMAIN boxes :
           Len(boxes[user]) = 1 /\ IsRead(heap, boxes[user][1])

(***************************************************************************)
(* C16: a successful send changes the mailbox of the recipient and the     *)
(* counter and nothing else: every other mailbox is as before, the         *)
(* recipient's mailbox has one entry more, and the entries it held keep    *)
(* their order and their read state.                                       *)
(***************************************************************************)
\* box without its entry at position p
Without(box, p) == SubSeq(box, 1, p - 1) \o SubSeq(box, p + 1, Len(box))

C16_SendFrame ==
    Sent =>
        /\ \A user \in DOMAIN boxes : user /= last.user => boxes[user] = pre.boxes[user]
        /\ DOMAIN boxes = DOMAIN pre.boxes
        /\ Len(Box) = Len(BoxBefore) + 1
        /\ \E p \in 1 .. Len(Box) : Box[p] = last.msg /\ Without(Box, p) = BoxBefore
        /\ \A o \in DOMAIN pre.heap : heap[o] = pre.heap[o]
        /\ \A k \in 1 .. Len(BoxBefore) :
               IsRead(heap, BoxBefore[k]) = IsRead(pre.heap, BoxBefore[k])

\* an urgent send into a mailbox that held a read entry, in an office with
\* another mailbox
C16_Witness ==
    /\ Sent /\ last.urgent
    /\ Len(Box) = 2
    /\ IsRead(heap, Box[2])
    /\ \E user \in DOMAIN boxes : user /= last.user

(***************************************************************************)
(* C17: read_inbox and search_inbox change neither the counter nor the     *)
(* length, the members or the order of any mailbox; read_inbox(user, ...)  *)
(* changes read flags of entries of the mailbox of user only, and the read *)
(* state seen in every other mailbox stays as it was.                      *)
(***************************************************************************)
C17_ReadSearchFrame ==
    (ReadCall \/ SearchCall) =>
        /\ message_id = pre.message_id
        /\ boxes = pre.boxes
        /\ DOMAIN heap = DOMAIN pre.heap
        /\ SearchCall => heap = pre.heap
        /\ \A o \in DOMAIN heap :
               IsRead(heap, o) /= IsRead(pre.heap, o) =>
                   /\ ReadCall /\ Registered
                   /\ \E k \in 1 .. Len(Box) : Box[k] = o
        /\ \A user \in DOMAIN boxes : \A k \in 1 .. Len(boxes[user]) :
               user /= last.user =>
                   IsRead(heap, boxes[user][k]) = IsRead(pre.heap, boxes[user][k])

\* a read that returned an entry while the other mailbox holds an unread one
C17_Witness ==
    /\ ReadCall /\ Registered
    /\ Len(last.result) = 1
    /\ \E user \in DOMAIN boxes :
           /\ user /= last.user
           /\ Len(boxes[user]) = 1
           /\ ~IsRead(heap, boxes[user][1])

(***************************************************************************)
(* C18: in the dictionary-based office read_inbox(username, number) for a  *)
(* registered user and any number >= 0 reads only positions the mailbox    *)
(* has and returns a list without raising, also when the number is above   *)
(* the number of messages in the mailbox.                                  *)
(***************************************************************************)
C18_ReadNeverRaises ==
    (impl = "week7.2" /\ ReadCall /\ Registered /\ last.count >= 0) =>
        /\ Returned
        /\ \A k \in 1 .. Len(last.result) :
               \E p \in 1 .. Len(Box) : Box[p] = last.result[k]

(***************************************************************************)
(* C19: in the dictionary-based office a stored message carries as its id  *)
(* the value send_message returned for it and is stored unread; the ids of *)
(* all entries over all mailboxes differ from each other and lie between 1 *)
(* and the counter.                                                        *)
(***************************************************************************)
\* the (mailbox, position) pairs of the office
Places ==
    UNION {{<<user, k>> : k \in 1 .. Len(boxes[user])} : user \in DOMAIN boxes}

IdAt(pl) == heap[boxes[pl[1]][pl[2]]].id

C19_DictIds ==
    impl = "week7.2" =>
        /\ Sent => /\ heap[last.msg].id = last.id
                   /\ heap[last.msg].unread
                   /\ \E k \in 1 .. Len(Box) : Box[k] = last.msg
        /\ \A pl \in Places : 1 <= IdAt(pl) /\ IdAt(pl) <= message_id
        /\ \A pl \in Places : \A ql \in Places : pl /= ql => IdAt(pl) /= IdAt(ql)

\* a second message stored, in a mailbox that holds a read message
C19_Witness ==
    /\ impl = "week7.2"
    /\ Sent
    /\ last.id = 2
    /\ Len(Box) = 2
    /\ \E k \in 1 .. 2 : ~heap[Box[k]].unread

====
